---- MODULE Spec2Model ----
(***************************************************************************)
(* Model of msticpy/data/drivers/splunk_driver.py: the SplunkDriver class  *)
(* (connect, query, _saved_searches, _fired_alerts) together with the     *)
(* class-level dictionary _CONNECT_DEFAULTS that all instances share.     *)
(*                                                                         *)
(* Python strings are sequences of one-character strings, so that          *)
(* str.split, str.strip, str.casefold, the substring test `in` and int()   *)
(* are computed as Python computes them.  Python values carry their type.  *)
(***************************************************************************)
EXTENDS Integers, Sequences, FiniteSets, TLC

VARIABLES _CONNECT_DEFAULTS, service, _connected, succeeded, last

vars == <<_CONNECT_DEFAULTS, service, _connected, succeeded, last>>

(***************************************************************************)
(* Bounds of the model.                                                    *)
(***************************************************************************)
MaxRecords == 1

(***************************************************************************)
(* Python values: a type tag and one payload field per type.               *)
(***************************************************************************)
PyStr(s) == [t |-> "str", s |-> s, n |-> 0, b |-> FALSE]

PyInt(n) == [t |-> "int", s |-> <<>>, n |-> n, b |-> FALSE]

PyBool(b) == [t |-> "bool", s |-> <<>>, n |-> 0, b |-> b]

PyNone == [t |-> "NoneType", s |-> <<>>, n |-> 0, b |-> FALSE]

EmptyDict == [k \in {} |-> PyNone]

(***************************************************************************)
(* String literals used by the driver and by the inputs.                   *)
(***************************************************************************)
host == <<"h", "o", "s", "t">>

port == <<"p", "o", "r", "t">>

scheme == <<"s", "c", "h", "e", "m", "e">>

http_scheme == <<"h", "t", "t", "p", "_">> \o scheme

verify == <<"v", "e", "r", "i", "f", "y">>

owner == <<"o", "w", "n", "e", "r">>

app == <<"a", "p", "p">>

sharing == <<"s", "h", "a", "r", "i", "n", "g">>

token == <<"t", "o", "k", "e", "n">>

cookie == <<"c", "o", "o", "k", "i", "e">>

autologin == <<"a", "u", "t", "o", "l", "o", "g", "i", "n">>

username == <<"u", "s", "e", "r", "n", "a", "m", "e">>

password == <<"p", "a", "s", "s", "w", "o", "r", "d">>

https == <<"h", "t", "t", "p", "s">>

true == <<"t", "r", "u", "e">>

Eq == <<"=">>

Semi == <<";">>

DefaultPort == 8089

SPLUNK_CONNECT_ARGS ==
    {host, port, scheme, verify, owner, app, sharing, token, cookie,
     autologin, username, password}

CONNECT_DEFAULTS_INITIAL ==
    [k \in {port, http_scheme, verify} |->
        IF k = port THEN PyInt(DefaultPort)
        ELSE IF k = http_scheme THEN PyStr(https)
        ELSE PyBool(FALSE)]

required_args == {host, username, password}

(***************************************************************************)
(* str.split(sep) for a one-character separator: the pieces between every  *)
(* occurrence of sep; n separators give n + 1 pieces.                      *)
(***************************************************************************)
RECURSIVE SplitFrom(_, _, _, _)
SplitFrom(s, sep, i, cur) ==
    IF i > Len(s) THEN <<cur>>
    ELSE IF s[i] = sep THEN <<cur>> \o SplitFrom(s, sep, i + 1, <<>>)
    ELSE SplitFrom(s, sep, i + 1, Append(cur, s[i]))

split(s, sep) == SplitFrom(s, sep, 1, <<>>)

Whitespace == {" "}

RECURSIVE lstrip(_)
lstrip(s) ==
    IF s # <<>> /\ Head(s) \in Whitespace THEN lstrip(Tail(s)) ELSE s

RECURSIVE rstrip(_)
rstrip(s) ==
    IF s # <<>> /\ s[Len(s)] \in Whitespace
    THEN rstrip(SubSeq(s, 1, Len(s) - 1))
    ELSE s

strip(s) == rstrip(lstrip(s))

(***************************************************************************)
(* str.casefold on the letters the inputs use.                             *)
(***************************************************************************)
FoldChar(c) ==
    CASE c = "T" -> "t"
      [] c = "R" -> "r"
      [] c = "U" -> "u"
      [] c = "E" -> "e"
      [] OTHER -> c

casefold(s) == [i \in 1..Len(s) |-> FoldChar(s[i])]

(***************************************************************************)
(* `sub in s` for strings: sub occurs in s as a contiguous substring.      *)
(***************************************************************************)
StrContains(sub, s) ==
    \E i \in 1..(Len(s) - Len(sub) + 1) : SubSeq(s, i, i + Len(sub) - 1) = sub

(***************************************************************************)
(* int(x): an int is itself, a bool is 0 or 1, a string is parsed after    *)
(* stripping whitespace (decimal digits only here; ValueError otherwise),  *)
(* None is a TypeError.                                                    *)
(***************************************************************************)
Digits == {"0", "1", "2", "3", "4", "5", "6", "7", "8", "9"}

DigitVal(c) ==
    CASE c = "0" -> 0 [] c = "1" -> 1 [] c = "2" -> 2 [] c = "3" -> 3
      [] c = "4" -> 4 [] c = "5" -> 5 [] c = "6" -> 6 [] c = "7" -> 7
      [] c = "8" -> 8 [] c = "9" -> 9

RECURSIVE Decimal(_)
Decimal(s) ==
    IF s = <<>> THEN 0
    ELSE 10 * Decimal(SubSeq(s, 1, Len(s) - 1)) + DigitVal(s[Len(s)])

IsDecimal(s) == s # <<>> /\ \A i \in 1..Len(s) : s[i] \in Digits

int(v) ==
    CASE v.t = "int" -> [exc |-> "none", n |-> v.n]
      [] v.t = "bool" -> [exc |-> "none", n |-> IF v.b THEN 1 ELSE 0]
      [] v.t = "str" ->
            IF IsDecimal(strip(v.s))
            THEN [exc |-> "none", n |-> Decimal(strip(v.s))]
            ELSE [exc |-> "ValueError", n |-> 0]
      [] OTHER -> [exc |-> "TypeError", n |-> 0]

(***************************************************************************)
(* dict.update and dict.get                                                *)
(***************************************************************************)
update(d, u) ==
    [k \in DOMAIN d \cup DOMAIN u |-> IF k \in DOMAIN u THEN u[k] ELSE d[k]]

get(d, k) == IF k \in DOMAIN d THEN d[k] ELSE PyNone

setitem(d, k, v) == [j \in DOMAIN d \cup {k} |-> IF j = k THEN v ELSE d[j]]

(***************************************************************************)
(* The dict comprehension of connect over connection_str.split(";"):       *)
(* each item is split on every "=", piece [0] stripped is the key and      *)
(* piece [1] is the value; an item without "=" has no piece [1]            *)
(* (IndexError); of two items with one key the later one stays.            *)
(***************************************************************************)
cs_items(connection_str) == split(connection_str, ";")

ItemKey(cs_item) == strip(split(cs_item, "=")[1])

ItemValue(cs_item) == split(cs_item, "=")[2]

ItemsIndexable(connection_str) ==
    \A i \in 1..Len(cs_items(connection_str)) :
        Len(split(cs_items(connection_str)[i], "=")) >= 2

LastItemWith(items, k) ==
    CHOOSE i \in 1..Len(items) :
        /\ ItemKey(items[i]) = k
        /\ \A j \in (i + 1)..Len(items) : ItemKey(items[j]) # k

ParseConnectionStr(connection_str) ==
    LET items == cs_items(connection_str)
        keys == {ItemKey(items[i]) : i \in 1..Len(items)}
    IN  [k \in keys |-> PyStr(ItemValue(items[LastItemWith(items, k)]))]

(***************************************************************************)
(* Inputs.                                                                 *)
(***************************************************************************)
Drivers == {"d1", "d2"}

h1 == <<"h", "1">>

cs_full ==
    host \o Eq \o h1 \o Semi \o port \o Eq \o <<"9", "0", "0", "0">> \o Semi
    \o username \o Eq \o <<"u">> \o Semi \o password \o Eq \o <<"p">>

cs_eq_in_value ==
    host \o Eq \o h1 \o Semi \o username \o Eq \o <<"u">> \o Semi
    \o password \o Eq \o <<"p", "=", "q">>

cs_trailing == host \o Eq \o h1 \o Semi

cs_spaces == <<" ">> \o host \o <<" ">> \o Eq \o h1 \o Semi
             \o verify \o Eq \o <<"T", "r", "u", "e">>

ConnectionStrings ==
    {<<>>, cs_full, cs_eq_in_value, cs_trailing, cs_spaces}

kw_required ==
    [k \in required_args |->
        IF k = host THEN PyStr(h1)
        ELSE IF k = username THEN PyStr(<<"u">>) ELSE PyStr(<<"p">>)]

kw_all ==
    update(kw_required,
           [k \in {port, scheme, verify} |->
               IF k = port THEN PyInt(9000)
               ELSE IF k = scheme THEN PyStr(<<"h", "t", "t", "p">>)
               ELSE PyBool(TRUE)])

kw_host_only == [k \in {host} |-> PyStr(h1)]

kw_bad_port == setitem(kw_required, port, PyStr(<<"a", "b", "c">>))

kw_untrue == setitem(kw_required, verify, PyStr(<<"u", "n", "t", "r", "u", "e">>))

kw_TRUE == setitem(kw_required, verify, PyStr(<<"T", "R", "U", "E">>))

kw_no == setitem(kw_required, verify, PyStr(<<"n", "o">>))

kw_int_verify == setitem(kw_required, verify, PyInt(1))

KeywordArgs ==
    {EmptyDict, kw_required, kw_all, kw_host_only, kw_bad_port, kw_untrue,
     kw_TRUE, kw_no, kw_int_verify}

\* The (connection_str, kwargs) pairs connect is called with: each source
\* alone, neither, and both at once.
ConnectInputs ==
    {[connection_str |-> cs, kwargs |-> EmptyDict] : cs \in ConnectionStrings}
    \cup {[connection_str |-> <<>>, kwargs |-> kw] : kw \in KeywordArgs}
    \cup {[connection_str |-> cs_spaces, kwargs |-> kw_required],
          [connection_str |-> cs_full, kwargs |-> kw_untrue]}

\* ParseConnectionStr over the connection strings of the inputs, computed once.
ParsedInput ==
    [cs \in ConnectionStrings \ {<<>>} |->
        IF ItemsIndexable(cs)
        THEN [ok |-> TRUE, dict |-> ParseConnectionStr(cs)]
        ELSE [ok |-> FALSE, dict |-> EmptyDict]]

Rows == {"r1", "r2"}

RowLists == UNION {[1..n -> Rows] : n \in 0..MaxRecords}

(***************************************************************************)
(* connect, lines 80-117: everything up to the session factory call.       *)
(***************************************************************************)
\* A source choice that refuses two non-empty sources.
ChooseSourceExclusive(connection_str, kwargs) ==
    IF connection_str # <<>> /\ DOMAIN kwargs # {} THEN "none"
    ELSE IF connection_str # <<>> THEN "connection_str"
    ELSE IF DOMAIN kwargs # {} THEN "kwargs"
    ELSE "none"

ChooseSource(connection_str, kwargs) ==
    IF connection_str # <<>> THEN "connection_str"
    ELSE IF DOMAIN kwargs # {} THEN "kwargs"
    ELSE "none"

CoerceVerify(verify_opt) ==
    IF verify_opt.t = "str"
    THEN PyBool(StrContains(true, casefold(verify_opt.s)))
    ELSE IF verify_opt.t = "bool" THEN verify_opt
    ELSE PyBool(FALSE)

\* check_kwargs(cs_dict, required_args): the required names that cs_dict
\* lacks; a non-empty result is the NameError naming them.
check_kwargs(cs_dict, required) == required \ DOMAIN cs_dict

FilterArgs(cs_dict) ==
    [k \in DOMAIN cs_dict \cap SPLUNK_CONNECT_ARGS |-> cs_dict[k]]

NoExc == [type |-> "none", title |-> "", named |-> {}]

Exc(type, title, named) == [type |-> type, title |-> title, named |-> named]

\* What one connect call does before it reaches client.connect: cs_dict is
\* the class-level dictionary itself (line 81), so every change to it is a
\* change to _CONNECT_DEFAULTS.
ConnectPrepare(defaults, connection_str, kwargs) ==
    LET source == ChooseSource(connection_str, kwargs)
        stop(e, d, sup) ==
            [exc |-> e, cs_dict |-> d, supplied |-> sup, reached |-> FALSE,
             arg_dict |-> EmptyDict]
    IN
    IF source = "none"
    THEN stop(Exc("MsticpyUserError", "no Splunk connection parameters", {}),
              defaults, EmptyDict)
    ELSE IF source = "connection_str" /\ ~ParsedInput[connection_str].ok
    THEN stop(Exc("IndexError", "", {}), defaults, EmptyDict)
    ELSE
    LET supplied == IF source = "connection_str"
                    THEN ParsedInput[connection_str].dict
                    ELSE kwargs
        d1 == update(defaults, supplied)
        p == int(d1[port])
    IN
    IF p.exc # "none"
    THEN stop(Exc(p.exc, "", {}), d1, supplied)
    ELSE
    LET d2 == setitem(d1, port, PyInt(p.n))
        d3 == setitem(d2, verify, CoerceVerify(get(d2, verify)))
        missing == check_kwargs(d3, required_args)
    IN
    IF missing # {}
    THEN stop(Exc("MsticpyUserError", "Required arguments missing", missing),
              d3, supplied)
    ELSE [exc |-> NoExc, cs_dict |-> d3, supplied |-> supplied,
          reached |-> TRUE, arg_dict |-> FilterArgs(d3)]

(***************************************************************************)
(* The session factory client.connect, called with arg_dict, is outside    *)
(* the driver:                                                             *)
(* it returns a session handle or raises AuthenticationError or HTTPError. *)
(***************************************************************************)
Sessions == {"s1", "s2"}

FactoryResults ==
    {[raised |-> "none", session |-> s] : s \in Sessions}
    \cup {[raised |-> e, session |-> "None"] :
            e \in {"AuthenticationError", "HTTPError"}}

\* lines 118-124: the assignment to self.service happens only when
\* client.connect returns; self._connected = True only after it.
ServiceAfter(old, res) == IF res.raised = "none" THEN res.session ELSE old

\* The flag set before the session factory is called.
ConnectedBeforeFactory(old, res) == TRUE

ConnectedAfter(old, res) == IF res.raised = "none" THEN TRUE ELSE old

FactoryExc(res) ==
    IF res.raised = "none" THEN NoExc
    ELSE Exc("MsticpyConnectionError", "Splunk connection", {})

(***************************************************************************)
(* State.  service and _connected are the fields of each driver as         *)
(* __init__ assigns them (lines 59-61); _CONNECT_DEFAULTS is the one       *)
(* class-level dictionary.  last is the outcome of the most recent call:   *)
(* the exception it raised (or none), what it passed to the session        *)
(* factory, what it returned and printed.  succeeded[d] records that some  *)
(* connect call on d has returned normally.                                *)
(*                                                                         *)
(* __init__ goes on to build public_attribs (lines 63-67), which reads the *)
(* properties _saved_searches and _fired_alerts of the still unconnected   *)
(* driver; that read raises as the accessor below does.  The operations    *)
(* are modelled on drivers whose fields are as lines 59-61 leave them.     *)
(***************************************************************************)
NoTable == [kind |-> "None", rows |-> <<>>]

DataFrame(rows) == [kind |-> "DataFrame", rows |-> rows]

Call(op, d) ==
    [op |-> op, drv |-> d, connection_str |-> <<>>, kwargs |-> EmptyDict,
     exc |-> NoExc, supplied |-> EmptyDict, called |-> FALSE,
     arg_dict |-> EmptyDict, returned |-> "None", backend |-> <<>>,
     ret |-> NoTable, warned |-> FALSE]

Init ==
    /\ _CONNECT_DEFAULTS = CONNECT_DEFAULTS_INITIAL
    /\ service = [d \in Drivers |-> "None"]
    /\ _connected = [d \in Drivers |-> FALSE]
    /\ succeeded = [d \in Drivers |-> FALSE]
    /\ last = Call("__init__", "d1")

connect(d) ==
    \E in \in ConnectInputs :
        LET r == ConnectPrepare(_CONNECT_DEFAULTS, in.connection_str, in.kwargs)
            c == [Call("connect", d) EXCEPT
                    !.connection_str = in.connection_str,
                    !.kwargs = in.kwargs,
                    !.supplied = r.supplied]
        IN
        /\ _CONNECT_DEFAULTS' = r.cs_dict
        /\ IF r.reached
           THEN \E res \in FactoryResults :
                /\ service' = [service EXCEPT ![d] = ServiceAfter(@, res)]
                /\ _connected' = [_connected EXCEPT ![d] = ConnectedAfter(@, res)]
                /\ succeeded' = [succeeded EXCEPT ![d] = @ \/ res.raised = "none"]
                /\ last' = [c EXCEPT !.called = TRUE,
                                     !.arg_dict = r.arg_dict,
                                     !.returned = res.session,
                                     !.exc = FactoryExc(res)]
           ELSE /\ UNCHANGED <<service, _connected, succeeded>>
                /\ last' = [c EXCEPT !.exc = r.exc]

(***************************************************************************)
(* query, lines 146-159.  json_response is the list of the rows the        *)
(* reader yields; the test isinstance(json_response, int) is made on that  *)
(* list.  A use of self.service while it is None is an AttributeError.     *)
(***************************************************************************)
PyList(rows) == [t |-> "list", rows |-> rows]

isinstance_int(v) == v.t \in {"int", "bool"}

Outcome(exc, called, backend, ret, warned) ==
    [exc |-> exc, called |-> called, backend |-> backend, ret |-> ret,
     warned |-> warned]

QueryOutcome(is_connected, svc, rows) ==
    IF ~is_connected
    THEN Outcome(Exc("ConnectionError", "", {}), FALSE, <<>>, NoTable, FALSE)
    ELSE IF svc = "None"
    THEN Outcome(Exc("AttributeError", "", {}), FALSE, <<>>, NoTable, FALSE)
    ELSE LET json_response == PyList(rows)
         IN  IF isinstance_int(json_response)
             THEN Outcome(NoExc, TRUE, rows, NoTable, TRUE)
             ELSE Outcome(NoExc, TRUE, rows, DataFrame(json_response.rows), FALSE)

\* DriverBase.connected, the property the two accessors test.
connected(d) == _connected[d]

\* _saved_searches, lines 209-227
SavedSearchesOutcome(is_connected, svc, rows) ==
    IF ~is_connected
    THEN Outcome(Exc("MsticpyNotConnectedError", "not connected to a workspace.", {}),
                 FALSE, <<>>, NoTable, FALSE)
    ELSE IF svc = "None"
    THEN Outcome(Exc("AttributeError", "", {}), FALSE, <<>>, NoTable, FALSE)
    ELSE Outcome(NoExc, TRUE, rows, DataFrame(rows), FALSE)

\* _fired_alerts, lines 240-256
FiredAlertsOutcome(is_connected, svc, rows) ==
    IF ~is_connected
    THEN Outcome(Exc("ConnectionError", "", {}), FALSE, <<>>, NoTable, FALSE)
    ELSE IF svc = "None"
    THEN Outcome(Exc("AttributeError", "", {}), FALSE, <<>>, NoTable, FALSE)
    ELSE Outcome(NoExc, TRUE, rows, DataFrame(rows), FALSE)

Record(op, d, o) ==
    [Call(op, d) EXCEPT !.exc = o.exc, !.called = o.called,
                        !.backend = o.backend, !.ret = o.ret,
                        !.warned = o.warned]

query(d) ==
    /\ \E rows \in RowLists :
          last' = Record("query", d, QueryOutcome(_connected[d], service[d], rows))
    /\ UNCHANGED <<_CONNECT_DEFAULTS, service, _connected, succeeded>>

_saved_searches(d) ==
    /\ \E rows \in RowLists :
          last' = Record("_saved_searches", d,
                         SavedSearchesOutcome(connected(d), service[d], rows))
    /\ UNCHANGED <<_CONNECT_DEFAULTS, service, _connected, succeeded>>

_fired_alerts(d) ==
    /\ \E rows \in RowLists :
          last' = Record("_fired_alerts", d,
                         FiredAlertsOutcome(connected(d), service[d], rows))
    /\ UNCHANGED <<_CONNECT_DEFAULTS, service, _connected, succeeded>>

Next ==
    \E d \in Drivers :
        \/ connect(d)
        \/ query(d)
        \/ _saved_searches(d)
        \/ _fired_alerts(d)

Spec == Init /\ [][Next]_vars

(***************************************************************************)
(* Properties.                                                             *)
(***************************************************************************)
IsConnect == last.op = "connect"

LastSource == ChooseSource(last.connection_str, last.kwargs)

\* The last connect call got a parameter set out of its source.
LastHasSupplied ==
    /\ IsConnect
    /\ LastSource # "none"
    /\ LastSource = "connection_str" => ParsedInput[last.connection_str].ok

\* The call's own port, when it supplies one, converts to an integer.
OwnPortConverts(supplied) ==
    port \in DOMAIN supplied => int(supplied[port]).exc = "none"

NoParametersError ==
    Exc("MsticpyUserError", "no Splunk connection parameters", {})

MissingArgument(names) ==
    Exc("MsticpyUserError", "Required arguments missing", names)

\* C1: while no connect call on a driver has succeeded, query, the
\* saved-searches accessor and the fired-alerts accessor on it fail with
\* the not-connected error type and with nothing else.
C1_NotConnectedError ==
    (/\ last.op \in {"query", "_saved_searches", "_fired_alerts"}
     /\ ~succeeded[last.drv])
    => last.exc.type = "MsticpyNotConnectedError"

\* C2: a connect call whose own parameter set holds host, username and
\* password (and whose own port, if any, converts to an integer) reaches the
\* session factory, and when the factory returns a session the call
\* succeeds, the driver holds that session and is marked connected.
C2_ValidSetConnects ==
    (/\ LastHasSupplied
     /\ required_args \subseteq DOMAIN last.supplied
     /\ OwnPortConverts(last.supplied))
    => /\ last.called
       /\ last.returned # "None" =>
            /\ last.exc = NoExc
            /\ _connected[last.drv]
            /\ service[last.drv] = last.returned

\* C3: a connect call whose own parameter set lacks some of host, username,
\* password (its own port, if any, converting to an integer) fails with the
\* missing-argument error naming exactly the keys it lacks, without calling
\* the session factory, whatever calls came before it.
C3_MissingNamed ==
    (/\ LastHasSupplied
     /\ required_args \ DOMAIN last.supplied # {}
     /\ OwnPortConverts(last.supplied))
    => /\ last.exc = MissingArgument(required_args \ DOMAIN last.supplied)
       /\ ~last.called

\* The parse the connection-string format describes: each item is split at
\* its first "=" only.
RECURSIVE FirstIndex(_, _, _)
FirstIndex(s, c, i) ==
    IF i > Len(s) THEN 0
    ELSE IF s[i] = c THEN i
    ELSE FirstIndex(s, c, i + 1)

KeyOfItem(item) == strip(SubSeq(item, 1, FirstIndex(item, "=", 1) - 1))

ValueOfItem(item) == SubSeq(item, FirstIndex(item, "=", 1) + 1, Len(item))

SplitOnFirstEq(connection_str) ==
    LET items == split(connection_str, ";")
        keys == {KeyOfItem(items[i]) : i \in 1..Len(items)}
        lastWith(k) ==
            CHOOSE i \in 1..Len(items) :
                /\ KeyOfItem(items[i]) = k
                /\ \A j \in (i + 1)..Len(items) : KeyOfItem(items[j]) # k
    IN  [k \in keys |-> PyStr(ValueOfItem(items[lastWith(k)]))]

\* C4: connect takes from a connection string, for every item, the text
\* before the first "=" as the key (surrounding blanks aside) and all the
\* text after that first "=" as the value, and passes port on as an integer.
C4_SplitOnFirstEq ==
    (/\ IsConnect
     /\ LastSource = "connection_str"
     /\ ParsedInput[last.connection_str].ok)
    => /\ last.supplied = SplitOnFirstEq(last.connection_str)
       /\ last.called => last.arg_dict[port].t = "int"

ExpectedVerify(verify_opt) ==
    IF verify_opt.t = "str" THEN casefold(verify_opt.s) = true
    ELSE IF verify_opt.t = "bool" THEN verify_opt.b
    ELSE FALSE

\* C5: the verify value connect passes to the session factory is a boolean:
\* true for a supplied string equal to "true" ignoring case, false for every
\* other string, for an absent value and for a value of another type, and
\* the supplied value itself when that is a boolean.
C5_VerifyCoercion ==
    (IsConnect /\ last.called)
    => /\ verify \in DOMAIN last.arg_dict
       /\ last.arg_dict[verify] =
            PyBool(ExpectedVerify(get(last.supplied, verify)))

\* C6 as stated: a connect call with both sources empty, and one with both
\* sources non-empty, fails with a user-input error without calling the
\* session factory.
C6_ExactlyOneSource ==
    (/\ IsConnect
     /\ (last.connection_str = <<>>) = (DOMAIN last.kwargs = {}))
    => /\ last.exc.type = "MsticpyUserError"
       /\ ~last.called

\* C6: a connect call with both sources empty fails with the
\* no-connection-parameters error without calling the session factory; a
\* call with both sources non-empty does not fail with that error, and the
\* parameter set it uses is the connection string's alone.
C6_EmptyRefusedStringPreferred ==
    IsConnect =>
        /\ (last.connection_str = <<>> /\ DOMAIN last.kwargs = {})
            => (last.exc = NoParametersError /\ ~last.called)
        /\ (last.connection_str # <<>> /\ DOMAIN last.kwargs # {})
            => /\ last.exc # NoParametersError
               /\ ParsedInput[last.connection_str].ok
                    => last.supplied = ParseConnectionStr(last.connection_str)

\* C6 witness: a call with both sources non-empty has connected.
C6_BothSourcesConnected ==
    /\ IsConnect
    /\ last.connection_str # <<>>
    /\ DOMAIN last.kwargs # {}
    /\ last.called
    /\ last.exc = NoExc
    /\ service[last.drv] = last.returned

\* C7: on a connected driver a query whose backend returns no records
\* returns an empty table, prints the warning and raises nothing.
C7_EmptyResultWarns ==
    (last.op = "query" /\ last.called /\ last.backend = <<>>)
    => /\ last.exc = NoExc
       /\ last.ret \in {NoTable, DataFrame(<<>>)}
       /\ last.warned

\* C8: what connect passes to the session factory holds recognised names
\* only, and for each of port, scheme and verify that the call did not
\* supply it holds the default: 8089, "https", false.
C8_DefaultsPassedOn ==
    (IsConnect /\ last.called)
    => /\ DOMAIN last.arg_dict \subseteq SPLUNK_CONNECT_ARGS
       /\ port \notin DOMAIN last.supplied
            => /\ port \in DOMAIN last.arg_dict
               /\ last.arg_dict[port] = PyInt(DefaultPort)
       /\ scheme \notin DOMAIN last.supplied
            => /\ scheme \in DOMAIN last.arg_dict
               /\ last.arg_dict[scheme] = PyStr(https)
       /\ verify \notin DOMAIN last.supplied
            => /\ verify \in DOMAIN last.arg_dict
               /\ last.arg_dict[verify] = PyBool(FALSE)

\* C9: the default parameter set is never changed by connect: it is always
\* the three initial entries.
C9_DefaultsImmutable == _CONNECT_DEFAULTS = CONNECT_DEFAULTS_INITIAL

\* C10: a driver is marked connected exactly when it holds a session that
\* a successful session-factory call returned, and a connect call that
\* fails leaves the flag and the session as they were.
C10_ConnectedIffSession ==
    /\ [](\A d \in Drivers :
            /\ _connected[d] <=> service[d] \in Sessions
            /\ _connected[d] <=> succeeded[d])
    /\ [][(last'.op = "connect" /\ last'.exc # NoExc)
            => UNCHANGED <<service, _connected>>]_vars

\* C10 witness: the session factory has refused a connect call on a driver
\* that was connected, and the driver still is.
C10_FailedReconnect ==
    /\ IsConnect
    /\ last.called
    /\ last.exc.type = "MsticpyConnectionError"
    /\ _connected[last.drv]
    /\ service[last.drv] \in Sessions
====
